---- MODULE Spec2Model ----
(***************************************************************************)
(* A model of girrgorr's streaming metrics pipeline:                       *)
(*   processing.padded        the look-ahead generator that pads chunks    *)
(*   processing.get_metrics   the loop that turns chunks into metric rows  *)
(*   metrics.separate_time_windows and the per-window kernels              *)
(*   actigraph.batched        the upstream chunk source                    *)
(*                                                                         *)
(* A sample row carries its timestamp and one acceleration value; the code *)
(* always slices the three axis columns together, so one column stands for *)
(* the triple.  NaN is the value numpy.nan.                                *)
(***************************************************************************)
EXTENDS Integers, Sequences, FiniteSets, TLC

\* ---------------------------------------------------------------- bounds
MaxRows     == 9    \* longest sample stream given to get_metrics
MaxBatch    == 3    \* largest batch_size
MaxChunks   == 4    \* most chunks of an iterator given to padded() directly
MaxChunkLen == 3    \* longest chunk of such an iterator
MaxPadding  == 3    \* largest padding given to padded() directly

WindowSizes     == {1, 2}                                \* seconds
SamplingPeriods == {400, 500, 1000}                      \* milliseconds
HighPass        == {<<1, 5>>, <<1, 2>>, <<3, 4>>, <<1, 1>>}  \* Hz, as num/den
MetricSets      == SUBSET {"angles", "en", "enmo"}
Signals         == {"ramp", "bumpy"}

NaN == -1

VARIABLES
    mode,            \* which entry point the caller uses: "padded" | "get_metrics"
    \* ---- arguments of get_metrics
    stream, window_size, batch_size, sampling_period, hpf, metrics,
    \* ---- locals of get_metrics
    gpc, rows_in_batch, median_window_size, padding, samples_in_a_window,
    result, table, kernel_log,
    \* ---- the generator padded(it, padding)
    ppc, demand, it, chunk, next_chunk, prepend, append, nan_append,
    \* ---- history of the generator
    chunks, pulled, eos, out,
    \* ---- a second call of get_metrics on the same file
    other_batch, first_outcome

argvars == <<stream, window_size, sampling_period, hpf, metrics>>
gmvars  == <<gpc, rows_in_batch, median_window_size, samples_in_a_window,
             result, table, kernel_log>>
genvars == <<ppc, it, chunk, next_chunk, prepend, append, nan_append,
             pulled, eos, out>>
runvars == <<other_batch, first_outcome>>
vars == <<mode, argvars, batch_size, gmvars, padding, demand, genvars, chunks, runvars>>

\* ------------------------------------------------------- python helpers
Min(a, b) == IF a < b THEN a ELSE b
Max(a, b) == IF a > b THEN a ELSE b

\* s[:n] for n >= 0
Take(s, n) == SubSeq(s, 1, Min(n, Len(s)))

\* s[n:] for n >= 0
Drop(s, n) == SubSeq(s, Min(n, Len(s)) + 1, Len(s))

\* a faulty variant of LastRows: the slice forgotten, the whole chunk carried over
LastRowsWhole(s, p) == s

\* s[-p:] for p >= 0.  -0 is 0, so s[-0:] is the whole of s.
LastRows(s, p) == IF p = 0 THEN s ELSE Drop(s, Max(Len(s) - p, 0))

\* s[a:-a] for a >= 0.  s[0:-0] is s[0:0], the empty slice.
Trim(s, a) == IF a = 0 THEN << >> ELSE SubSeq(s, a + 1, Len(s) - a)

\* s[::w] for w >= 1: the rows at offsets 0, w, 2w, ...
Stride(s, w) == [k \in 1..((Len(s) + w - 1) \div w) |-> s[(k - 1) * w + 1]]

\* round(n / d) for n >= 0, d > 0: python rounds a tie to the even neighbour
Round(n, d) ==
    LET q == n \div d
        r == n % d
    IN  IF 2 * r < d THEN q
        ELSE IF 2 * r > d THEN q + 1
        ELSE IF q % 2 = 0 THEN q ELSE q + 1

RECURSIVE SumSeq(_)
SumSeq(s) == IF s = << >> THEN 0 ELSE Head(s) + SumSeq(Tail(s))

\* ------------------------------------------------------------ the data
Acc(signal, i) == IF signal = "ramp" THEN i ELSE (i * i) % 5

Row(signal, i) == [datetime |-> i, acc |-> Acc(signal, i)]

NanRow == [datetime |-> NaN, acc |-> NaN]

\* numpy.nan * numpy.zeros((padding,) + chunk.shape[1:])
NanBlock(p) == [i \in 1..p |-> NanRow]

\* the file's rows
Stream(signal, n) == [i \in 1..n |-> Row(signal, i)]

\* pandas.read_csv(..., chunksize=n): n rows at a time, the last chunk shorter
Batched(s, n) ==
    [k \in 1..((Len(s) + n - 1) \div n) |->
        SubSeq(s, (k - 1) * n + 1, Min(k * n, Len(s)))]

\* an iterator whose chunks have the given lengths (none empty, as the chunks
\* of pandas.read_csv), its rows numbered on from one chunk to the next
RECURSIVE ChunksOf(_, _)
ChunksOf(lens, from) ==
    IF lens = << >> THEN << >>
    ELSE <<[i \in 1..Head(lens) |-> Row("ramp", from + i)]>>
         \o ChunksOf(Tail(lens), from + Head(lens))

LenSeqs ==
    UNION {[1..n -> 1..MaxChunkLen] : n \in 0..MaxChunks}

\* --------------------------------------------------------------- padded
\* a faulty variant of ChunkLongEnough: the assertion made on the chunk read ahead
ChunkLongEnoughNext == Len(next_chunk) >= padding

\* the assertion of the loop body
ChunkLongEnough == Len(chunk) >= padding

\* max(0, padding - len(next_chunk))
NanAppend == Max(0, padding - Len(next_chunk))

\* concat([prepend, chunk, next_chunk[:padding], append[:nan_append]])
LoopPadded == prepend \o chunk \o Take(next_chunk, padding) \o Take(append, NanAppend)

\* concat([prepend, next_chunk, append])
FinalPadded == prepend \o next_chunk \o append

\* a faulty variant of LoopPair: the chunk read ahead yielded in place of the current one
LoopPairAhead == [chunk |-> next_chunk, padded |-> LoopPadded]

\* yield chunk, concat([...]) in the loop
LoopPair == [chunk |-> chunk, padded |-> LoopPadded]

\* yield next_chunk, concat([...]) after the loop
FinalPair == [chunk |-> next_chunk, padded |-> FinalPadded]

\* next_chunk = chunk = next(it), and the nan blocks
PaddedStart ==
    /\ demand /\ ppc = "start"
    /\ IF it = << >>
       THEN /\ ppc' = "raised"
            /\ demand' = FALSE
            /\ eos' = TRUE
            /\ UNCHANGED <<it, chunk, next_chunk, prepend, append, pulled>>
       ELSE /\ chunk' = Head(it)
            /\ next_chunk' = Head(it)
            /\ it' = Tail(it)
            /\ pulled' = pulled + 1
            /\ prepend' = NanBlock(padding)
            /\ append' = NanBlock(padding)
            /\ ppc' = "for"
            /\ UNCHANGED <<demand, eos>>
    /\ UNCHANGED <<mode, argvars, batch_size, gmvars, padding, nan_append, out,
                   chunks, runvars>>

\* for next_chunk in it: pull the next chunk, or see the end of the stream
PaddedFor ==
    /\ demand /\ ppc = "for"
    /\ IF it = << >>
       THEN /\ eos' = TRUE
            /\ ppc' = "after"
            /\ UNCHANGED <<it, next_chunk, pulled>>
       ELSE /\ next_chunk' = Head(it)
            /\ it' = Tail(it)
            /\ pulled' = pulled + 1
            /\ ppc' = "body"
            /\ UNCHANGED eos
    /\ UNCHANGED <<mode, argvars, batch_size, gmvars, padding, demand, chunk,
                   prepend, append, nan_append, out, chunks, runvars>>

\* the loop body up to its yield
PaddedBody ==
    /\ demand /\ ppc = "body"
    /\ IF ~ChunkLongEnough
       THEN /\ ppc' = "raised"
            /\ UNCHANGED <<nan_append, out>>
       ELSE /\ nan_append' = NanAppend
            /\ out' = Append(out, LoopPair)
            /\ ppc' = "yielded"
    /\ demand' = FALSE
    /\ UNCHANGED <<mode, argvars, batch_size, gmvars, padding, it, chunk,
                   next_chunk, prepend, append, pulled, eos, chunks, runvars>>

\* the loop body after its yield, when the consumer asks for the next pair
PaddedResume ==
    /\ demand /\ ppc = "yielded"
    /\ prepend' = LastRows(chunk, padding)
    /\ append' = Drop(append, nan_append)
    /\ chunk' = next_chunk
    /\ ppc' = "for"
    /\ UNCHANGED <<mode, argvars, batch_size, gmvars, padding, demand, it,
                   next_chunk, nan_append, pulled, eos, out, chunks, runvars>>

\* the yield after the loop
PaddedFinal ==
    /\ demand /\ ppc = "after"
    /\ out' = Append(out, FinalPair)
    /\ ppc' = "final"
    /\ demand' = FALSE
    /\ UNCHANGED <<mode, argvars, batch_size, gmvars, padding, it, chunk,
                   next_chunk, prepend, append, nan_append, pulled, eos,
                   chunks, runvars>>

\* the generator returns
PaddedReturn ==
    /\ demand /\ ppc = "final"
    /\ ppc' = "exhausted"
    /\ demand' = FALSE
    /\ UNCHANGED <<mode, argvars, batch_size, gmvars, padding, it, chunk,
                   next_chunk, prepend, append, nan_append, pulled, eos, out,
                   chunks, runvars>>

\* a caller that iterates padded(it, padding) to its end
NextItem ==
    /\ mode = "padded"
    /\ ~demand
    /\ ppc \in {"start", "yielded", "final"}
    /\ demand' = TRUE
    /\ UNCHANGED <<mode, argvars, batch_size, gmvars, padding, genvars, chunks,
                   runvars>>

\* -------------------------------------------------------------- metrics
AccColumn(rows) == [i \in 1..Len(rows) |-> rows[i].acc]

DatetimeColumn(rows) == [i \in 1..Len(rows) |-> rows[i].datetime]

\* size of one window
WindowLength(ws, sp) == (ws * 1000) \div sp

\* xyz[:dim1 * dim0].reshape(dim0, dim1, -1)
SeparateTimeWindows(xyz, ws, sp) ==
    LET dim1 == WindowLength(ws, sp)
        dim0 == Len(xyz) \div dim1
        cut  == Take(xyz, dim1 * dim0)
    IN  [k \in 1..dim0 |-> SubSeq(cut, (k - 1) * dim1 + 1, k * dim1)]

\* The kernels reduce each window to a number.  They are modelled per window
\* on the one column: en as the sum of the norms (the mean times the window
\* length), enmo as the sum of the norms minus one clipped at zero, and the
\* angles, whose arctan2 has no integer counterpart, as the window they are
\* a function of.
En(windows) == [k \in 1..Len(windows) |-> SumSeq(windows[k])]

Enmo(windows) ==
    [k \in 1..Len(windows) |->
        SumSeq([i \in 1..Len(windows[k]) |-> Max(windows[k][i] - 1, 0)])]

WindowedAngles(windows) == [k \in 1..Len(windows) |-> <<"angles", windows[k]>>]

\* the middle value of an odd number of values
MedianOf(w) ==
    LET h == Len(w) \div 2
    IN  CHOOSE v \in {w[i] : i \in 1..Len(w)} :
            /\ Cardinality({i \in 1..Len(w) : w[i] < v}) <= h
            /\ Cardinality({i \in 1..Len(w) : w[i] <= v}) >= h + 1

\* .rolling(m, center=True).median(): NaN where the window is incomplete or
\* holds a NaN
RollingMedian(x, m) ==
    LET h == m \div 2
    IN  [i \in 1..Len(x) |->
            IF i - h < 1 \/ i + h > Len(x) THEN NaN
            ELSE LET w == SubSeq(x, i - h, i + h)
                 IN  IF \E j \in 1..Len(w) : w[j] = NaN THEN NaN ELSE MedianOf(w)]

\* numpy.where(~numpy.isnan(x[:, 0]))[0]
NotNan(x) == {i \in 1..Len(x) : x[i] # NaN}

\* x[:idx[0]] = x[idx[0]]; x[idx[-1]:] = x[idx[-1]]
FillHeadAndTailNan(x) ==
    LET idx   == NotNan(x)
        first == CHOOSE i \in idx : \A j \in idx : i <= j
        last  == CHOOSE i \in idx : \A j \in idx : i >= j
    IN  [i \in 1..Len(x) |->
            IF i < first THEN x[first] ELSE IF i >= last THEN x[last] ELSE x[i]]

\* ---------------------------------------------------------- get_metrics
\* window_size * batch_size * 1000 // sampling_period
RowsInBatch(ws, bs, sp) == (ws * bs * 1000) \div sp

\* round(1000 / sampling_period / high_pass_frequency_angles)
MedianWindowRaw(sp, f) == Round(1000 * f[2], sp * f[1])

\* padding = median_window_size // 2, of the rounded quotient
PaddingOf(sp, f) == MedianWindowRaw(sp, f) \div 2

\* a faulty variant of MedianWindowSize: the window left even
MedianWindowSizeEven(p) == 2 * p

\* 2 * padding + 1
MedianWindowSize(p) == 2 * p + 1

\* a faulty variant of NanArea: one row more trimmed than was padded
NanAreaWide(m) == (m + 1) \div 2

\* median_window_size // 2
NanArea(m) == m \div 2

\* a faulty variant of NotEnoughSamples: only an empty chunk ends the loop
NotEnoughSamplesEmpty(c) == Len(c) = 0

\* sampling_period * len(chunk) < window_size * 1000
NotEnoughSamples(c) == sampling_period * Len(c) < window_size * 1000

\* the denoised signal of a padded chunk, before the nan repair
Denoised(p) == Trim(RollingMedian(AccColumn(p), median_window_size),
                    NanArea(median_window_size))

\* the columns of the chunk's dataframe, in the order of their insertion
Columns(pair) ==
    LET xyz == SeparateTimeWindows(AccColumn(pair.chunk), window_size, sampling_period)
        med == SeparateTimeWindows(FillHeadAndTailNan(Denoised(pair.padded)),
                                   window_size, sampling_period)
    IN  <<[name |-> "datetime",
           values |-> Stride(DatetimeColumn(pair.chunk), samples_in_a_window)]>>
        \o (IF "angles" \in metrics
            THEN <<[name |-> "angles", values |-> WindowedAngles(med)]>> ELSE << >>)
        \o (IF "en" \in metrics
            THEN <<[name |-> "en", values |-> En(xyz)]>> ELSE << >>)
        \o (IF "enmo" \in metrics
            THEN <<[name |-> "enmo", values |-> Enmo(xyz)]>> ELSE << >>)

\* dict(zip(dataframe.keys(), x)) for x in zip(*dataframe.values()):
\* zip stops at the shortest column
RowsOf(cols) ==
    LET n == CHOOSE m \in {Len(cols[c].values) : c \in 1..Len(cols)} :
                 \A c \in 1..Len(cols) : m <= Len(cols[c].values)
    IN  [k \in 1..n |-> [c \in 1..Len(cols) |-> <<cols[c].name, cols[c].values[k]>>]]

\* what ran on a chunk that was not too short
Ran(failed) ==
    {"windows"}
    \cup (IF "angles" \in metrics THEN {"denoise"} ELSE {})
    \cup (IF failed THEN {} ELSE metrics)

\* the function up to its loop
GetMetricsStart ==
    /\ mode = "get_metrics" /\ gpc = "start"
    /\ rows_in_batch' = RowsInBatch(window_size, batch_size, sampling_period)
    /\ padding' = PaddingOf(sampling_period, hpf)
    /\ median_window_size' = MedianWindowSize(padding')
    /\ samples_in_a_window' = WindowLength(window_size, sampling_period)
    /\ result' = << >>
    /\ chunks' = Batched(stream, rows_in_batch')
    /\ it' = chunks'
    /\ ppc' = "start"
    /\ demand' = TRUE
    /\ gpc' = "loop"
    /\ UNCHANGED <<mode, argvars, batch_size, table, kernel_log, chunk, next_chunk,
                   prepend, append, nan_append, pulled, eos, out, runvars>>

\* one pass of the loop over a pair the generator yielded
GetMetricsLoop ==
    /\ mode = "get_metrics" /\ gpc = "loop"
    /\ ~demand /\ ppc \in {"yielded", "final"}
    /\ LET pair == out[Len(out)]
       IN  IF NotEnoughSamples(pair.chunk)
           THEN /\ gpc' = "broke"
                /\ UNCHANGED <<result, kernel_log, demand>>
           ELSE IF "angles" \in metrics /\ NotNan(Denoised(pair.padded)) = {}
           THEN /\ gpc' = "failed"
                /\ kernel_log' = Append(kernel_log, [pair |-> Len(out), ran |-> Ran(TRUE)])
                /\ UNCHANGED <<result, demand>>
           ELSE /\ result' = result \o RowsOf(Columns(pair))
                /\ kernel_log' = Append(kernel_log, [pair |-> Len(out), ran |-> Ran(FALSE)])
                /\ demand' = TRUE
                /\ UNCHANGED gpc
    /\ UNCHANGED <<mode, argvars, batch_size, rows_in_batch, median_window_size,
                   samples_in_a_window, table, padding, genvars, chunks, runvars>>

\* the generator raised: the exception leaves get_metrics
GetMetricsRaise ==
    /\ mode = "get_metrics" /\ gpc = "loop"
    /\ ~demand /\ ppc = "raised"
    /\ gpc' = "failed"
    /\ UNCHANGED <<mode, argvars, batch_size, rows_in_batch, median_window_size,
                   samples_in_a_window, result, table, kernel_log, padding, demand,
                   genvars, chunks, runvars>>

\* after the loop: result = pandas.DataFrame(result); return result
GetMetricsReturn ==
    /\ mode = "get_metrics"
    /\ \/ gpc = "broke"
       \/ gpc = "loop" /\ ~demand /\ ppc = "exhausted"
    /\ table' = result
    /\ gpc' = "done"
    /\ UNCHANGED <<mode, argvars, batch_size, rows_in_batch, median_window_size,
                   samples_in_a_window, result, kernel_log, padding, demand,
                   genvars, chunks, runvars>>

\* what a call of get_metrics ended with
Outcome == [status |-> gpc, table |-> IF gpc = "done" THEN table ELSE << >>]

NoOutcome == [status |-> "none", table |-> << >>]

\* the same file read again with the other batch size, the two sizes swapped
Rerun ==
    /\ mode = "get_metrics" /\ gpc \in {"done", "failed"}
    /\ first_outcome = NoOutcome
    /\ first_outcome' = Outcome
    /\ batch_size' = other_batch
    /\ other_batch' = batch_size
    /\ gpc' = "start"
    /\ rows_in_batch' = 0 /\ median_window_size' = 0 /\ padding' = 0
    /\ samples_in_a_window' = 0
    /\ result' = << >> /\ table' = << >> /\ kernel_log' = << >>
    /\ ppc' = "idle" /\ demand' = FALSE /\ it' = << >>
    /\ chunk' = << >> /\ next_chunk' = << >> /\ prepend' = << >> /\ append' = << >>
    /\ nan_append' = 0 /\ chunks' = << >> /\ pulled' = 0 /\ eos' = FALSE /\ out' = << >>
    /\ UNCHANGED <<mode, argvars>>

\* ------------------------------------------------------- specifications
InitGenerator ==
    /\ chunk = << >> /\ next_chunk = << >> /\ prepend = << >> /\ append = << >>
    /\ nan_append = 0 /\ pulled = 0 /\ eos = FALSE /\ out = << >>

\* padded(it, padding) called on an iterator of the caller's
InitPadded ==
    /\ mode = "padded"
    /\ \E lens \in LenSeqs : chunks = ChunksOf(lens, 0)
    /\ it = chunks
    /\ padding \in 0..MaxPadding
    /\ ppc = "start" /\ demand = FALSE
    /\ InitGenerator
    /\ stream = << >> /\ window_size = 1 /\ batch_size = 1 /\ sampling_period = 1000
    /\ hpf = <<1, 1>> /\ metrics = {}
    /\ gpc = "idle" /\ rows_in_batch = 0 /\ median_window_size = 0
    /\ samples_in_a_window = 0 /\ result = << >> /\ table = << >> /\ kernel_log = << >>
    /\ other_batch = 1 /\ first_outcome = NoOutcome

\* get_metrics called on a file of at least two rows
InitArguments ==
    /\ mode = "get_metrics"
    /\ \E signal \in Signals, n \in 2..MaxRows : stream = Stream(signal, n)
    /\ window_size \in WindowSizes
    /\ batch_size \in 1..MaxBatch
    /\ sampling_period \in SamplingPeriods
    /\ hpf \in HighPass
    /\ metrics \in MetricSets
    /\ gpc = "start" /\ rows_in_batch = 0 /\ median_window_size = 0 /\ padding = 0
    /\ samples_in_a_window = 0 /\ result = << >> /\ table = << >> /\ kernel_log = << >>
    /\ ppc = "idle" /\ demand = FALSE /\ it = << >> /\ chunks = << >>
    /\ InitGenerator
    /\ first_outcome = NoOutcome

InitMetrics == InitArguments /\ other_batch = batch_size

InitTwoRuns == InitArguments /\ other_batch \in 1..MaxBatch

Init == InitPadded \/ InitMetrics

Generator ==
    \/ PaddedStart
    \/ PaddedFor
    \/ PaddedBody
    \/ PaddedResume
    \/ PaddedFinal
    \/ PaddedReturn

GetMetrics ==
    \/ GetMetricsStart
    \/ GetMetricsLoop
    \/ GetMetricsRaise
    \/ GetMetricsReturn

Next == Generator \/ GetMetrics \/ NextItem

Spec == Init /\ [][Next]_vars

NextTwoRuns == Generator \/ GetMetrics \/ Rerun

SpecTwoRuns == InitTwoRuns /\ [][NextTwoRuns]_vars

\* ---------------------------------------------------------------- claims
\* no chunk but the last is shorter than the padding, reading bs windows a chunk
NoShortInnerChunk(bs) ==
    LET cs == Batched(stream, RowsInBatch(window_size, bs, sampling_period))
    IN  \A k \in 1..(Len(cs) - 1) : Len(cs[k]) >= PaddingOf(sampling_period, hpf)

\* C1: chunk-size invariance.  Two calls of get_metrics on the same file with
\* the same window_size, metrics and cutoff, whose batch sizes leave no
\* non-final chunk shorter than the padding, end with the same outcome: the
\* same table, row for row.
C1_ChunkSizeInvariance ==
    (/\ mode = "get_metrics"
     /\ first_outcome # NoOutcome
     /\ gpc \in {"done", "failed"}
     /\ NoShortInnerChunk(batch_size)
     /\ NoShortInnerChunk(other_batch))
    => Outcome = first_outcome

\* every chunk of the iterator but the last has at least `padding` rows
InnerChunksLongEnough == \A k \in 1..(Len(chunks) - 1) : Len(chunks[k]) >= padding

\* the last p rows of a chunk of at least p rows
LastExactly(c, p) == SubSeq(c, Len(c) - p + 1, Len(c))

\* the prefix the claim gives the padded variant of chunk k
PrefixOf(k) == IF k = 1 THEN NanBlock(padding) ELSE LastExactly(chunks[k - 1], padding)

\* the suffix the claim gives the padded variant of a chunk k that is not the last
SuffixOf(k) ==
    LET m == Min(padding, Len(chunks[k + 1]))
    IN  Take(chunks[k + 1], m) \o NanBlock(padding - m)

\* C2: when every non-final chunk has at least `padding` rows, the padded
\* variant emitted for chunk k starts with the last `padding` rows of chunk
\* k-1 (NaN rows for the first chunk), goes on with chunk k unchanged and,
\* when k is not the last chunk, ends with the first rows of chunk k+1 filled
\* up to `padding` rows with NaN rows.
C2_PaddedVariant ==
    InnerChunksLongEnough =>
        \A k \in 1..Len(out) :
            IF k < Len(chunks)
            THEN out[k].padded = PrefixOf(k) \o chunks[k] \o SuffixOf(k)
            ELSE Take(out[k].padded, padding + Len(chunks[k]))
                     = PrefixOf(k) \o chunks[k]

\* C3: when every non-final chunk has at least `padding` rows, the padded
\* variant of the final chunk ends in exactly `padding` NaN rows and is
\* len(final chunk) + 2 * padding rows long, however short the final chunk.
C3_FinalSuffix ==
    (InnerChunksLongEnough /\ ppc \in {"final", "exhausted"}) =>
        LET fin == out[Len(out)]
        IN  /\ Len(fin.padded) = Len(fin.chunk) + 2 * padding
            /\ Drop(fin.padded, Len(fin.padded) - padding) = NanBlock(padding)

\* one pair per chunk, in order, each emitted right after one chunk of look-ahead
OnePairPerChunk ==
    /\ Len(out) <= Len(chunks)
    /\ \A k \in 1..Len(out) : out[k].chunk = chunks[k]
    /\ \A k \in 1..Len(out) : pulled >= k + 1 \/ eos
    /\ ppc = "body" => Len(out) = pulled - 2
    /\ ppc \in {"for", "yielded", "after"} => Len(out) = pulled - 1
    /\ ppc \in {"raised", "final", "exhausted"} => Len(out) = Len(chunks)

\* C4 as stated: for every iterator, padded() emits exactly one pair per input
\* chunk, in input order, the first component the chunk itself, the pair of
\* chunk k once chunk k+1 was pulled or the end of the stream seen, and no
\* later.
C4_EveryStream == OnePairPerChunk

\* C4, amended: the same for every iterator whose non-final chunks have at
\* least `padding` rows.
C4_OnePairPerChunk == InnerChunksLongEnough => OnePairPerChunk

\* an iterator of three chunks, the last shorter than the padding, read to its end
C4_Witness ==
    /\ mode = "padded" /\ ppc = "exhausted" /\ Len(out) = 3
    /\ padding = 2 /\ Len(chunks[3]) = 1

\* C5: a non-final chunk k shorter than `padding` is fatal.  No pair is ever
\* emitted for chunk k or a later chunk, padded() raises at the assertion that
\* follows the pull of chunk k+1, and get_metrics neither leaves its loop
\* normally nor returns a table.
C5_ShortInnerChunkFatal ==
    \A k \in 1..(Len(chunks) - 1) :
        Len(chunks[k]) < padding =>
            /\ Len(out) < k
            /\ pulled >= k + 1 =>
                   \/ ppc = "raised"
                   \/ ppc = "body" /\ Len(chunk) < padding
            /\ ppc \notin {"final", "exhausted"}
            /\ gpc \notin {"broke", "done"}
            /\ table = << >> /\ result = << >>
            /\ (mode = "get_metrics" /\ ~ENABLED Next) => gpc = "failed"

\* get_metrics failed on a file whose first chunk is shorter than the padding
C5_Witness ==
    /\ mode = "get_metrics" /\ gpc = "failed" /\ ppc = "raised"
    /\ Len(chunks) >= 2 /\ Len(chunks[1]) < padding

\* a pair waits for get_metrics and its chunk is not too short
PairToProcess ==
    /\ mode = "get_metrics" /\ gpc = "loop" /\ ~demand
    /\ ppc \in {"yielded", "final"}
    /\ sampling_period * Len(out[Len(out)].chunk) >= window_size * 1000

\* C6: a chunk of N rows that get_metrics processes adds exactly N // W rows,
\* W = window_size * 1000 // sampling_period, whatever subset of the metrics
\* is asked for; with angles, the denoised signal of the padded chunk has N
\* rows.
C6_RowsPerChunk ==
    [][PairToProcess =>
          LET pair == out[Len(out)]
              n    == Len(pair.chunk)
          IN  /\ Len(result') = Len(result) + n \div WindowLength(window_size, sampling_period)
              /\ "angles" \in metrics => Len(Denoised(pair.padded)) = n]_vars

\* the rows get_metrics adds for the pairs before pair n
RECURSIVE RowsBefore(_)
RowsBefore(n) ==
    IF n <= 1 THEN << >>
    ELSE RowsBefore(n - 1) \o RowsOf(Columns(out[n - 1]))

\* C7: a chunk with len(chunk) * sampling_period < window_size * 1000 ends
\* the loop without an error.  The generator is not asked for another pair,
\* nothing is run on the chunk, and the table returned holds exactly the rows
\* of the chunks before it.
C7_ShortChunkEndsLoop ==
    (/\ mode = "get_metrics" /\ ppc \in {"yielded", "final"}
     /\ sampling_period * Len(out[Len(out)].chunk) < window_size * 1000)
    => /\ ~demand
       /\ gpc \in {"loop", "broke", "done"}
       /\ \A i \in 1..Len(kernel_log) : kernel_log[i].pair < Len(out)
       /\ Len(kernel_log) = Len(out) - 1
       /\ result = RowsBefore(Len(out))
       /\ gpc = "done" => table = result

\* a table returned after a short final chunk, with rows of the chunks before it
C7_Witness ==
    /\ mode = "get_metrics" /\ gpc = "done" /\ ppc = "final"
    /\ sampling_period * Len(out[Len(out)].chunk) < window_size * 1000
    /\ Len(out) >= 2 /\ Len(table) >= 2

\* C8: rows_in_batch is an integer multiple of samples_in_a_window for every
\* window_size, batch_size and sampling_period.
C8_BatchIsWholeWindows ==
    (mode = "get_metrics" /\ gpc # "start") =>
        rows_in_batch % samples_in_a_window = 0

\* the chunk the generator is working on is chunk CurrentIndex of the iterator
CurrentIndex == IF ppc \in {"body", "yielded", "raised"} THEN pulled - 1 ELSE pulled

\* the generator has started and holds its locals
Started == ppc \notin {"idle", "start"} /\ pulled >= 1

WindowIsOddAndTrimmed ==
    /\ median_window_size % 2 = 1
    /\ padding = median_window_size \div 2
    /\ NanArea(median_window_size) = padding

====
